---- MODULE Spec2Model ----
(***************************************************************************)
(* A model of cardinals_trmnl.py: the broadcast normalizer                 *)
(* get_simplified_broadcasts and the schedule part of fetch_cardinals_data.*)
(* Python strings are TLA+ strings; every other Python value is a tagged   *)
(* record, so that isinstance tests and .get defaults are modelled by what *)
(* they do.                                                                *)
(***************************************************************************)
EXTENDS Integers, Sequences, FiniteSets, TLC

(***************************************************************************)
(* Python str operations.                                                  *)
(***************************************************************************)

\* The printable ASCII characters in code point order, from the space (32); the
\* grave accent (96), which a TLA+ string cannot hold, is left out.
Ascii == " !\"#$%&'()*+,-./0123456789:;<=>?@ABCDEFGHIJKLMNOPQRSTUVWXYZ[\\]^_abcdefghijklmnopqrstuvwxyz{|}~"

LowerChars == "abcdefghijklmnopqrstuvwxyz"

UpperChars == "ABCDEFGHIJKLMNOPQRSTUVWXYZ"

\* The i-th character of s, as a string of length one.
CharAt(s, i) == SubSeq(s, i, i)

\* The rank of character c in code point order: sorted() uses only the order.
Ord(c) == CHOOSE i \in 1..Len(Ascii) : CharAt(Ascii, i) = c

\* a < b on Python strings: lexicographic by code point.
RECURSIVE StrLess(_, _)
StrLess(a, b) ==
    IF b = "" THEN FALSE
    ELSE IF a = "" THEN TRUE
    ELSE IF Head(a) = Head(b) THEN StrLess(Tail(a), Tail(b))
    ELSE Ord(Head(a)) < Ord(Head(b))

\* sub in s
Contains(s, sub) ==
    \E i \in 1..(Len(s) - Len(sub) + 1) : SubSeq(s, i, i + Len(sub) - 1) = sub

\* s.startswith(p)
StartsWith(s, p) == Len(s) >= Len(p) /\ SubSeq(s, 1, Len(p)) = p

\* s.replace(old, new), old non-empty: every non-overlapping occurrence, left to right.
RECURSIVE Replace(_, _, _)
Replace(s, old, new) ==
    IF Len(s) < Len(old) THEN s
    ELSE IF SubSeq(s, 1, Len(old)) = old
         THEN new \o Replace(SubSeq(s, Len(old) + 1, Len(s)), old, new)
         ELSE CharAt(s, 1) \o Replace(Tail(s), old, new)

\* s.lstrip() and s.rstrip(); the space is the only whitespace of the model's strings.
RECURSIVE LStrip(_)
LStrip(s) == IF s # "" /\ Head(s) = " " THEN LStrip(Tail(s)) ELSE s

RECURSIVE RStrip(_)
RStrip(s) ==
    IF s # "" /\ CharAt(s, Len(s)) = " " THEN RStrip(SubSeq(s, 1, Len(s) - 1)) ELSE s

\* s.strip()
Strip(s) == RStrip(LStrip(s))

UpperChar(c) ==
    IF \E i \in 1..Len(LowerChars) : CharAt(LowerChars, i) = c
    THEN CharAt(UpperChars, CHOOSE i \in 1..Len(LowerChars) : CharAt(LowerChars, i) = c)
    ELSE c

\* s.upper()
RECURSIVE Upper(_)
Upper(s) == IF s = "" THEN "" ELSE UpperChar(Head(s)) \o Upper(Tail(s))

\* sorted(list(S)) for a set S of strings.
RECURSIVE Sorted(_)
Sorted(S) ==
    IF S = {} THEN <<>>
    ELSE LET m == CHOOSE x \in S : \A y \in S \ {x} : StrLess(x, y)
         IN  <<m>> \o Sorted(S \ {m})

\* seq[:n]
Take(seq, n) == SubSeq(seq, 1, IF n < Len(seq) THEN n ELSE Len(seq))

(***************************************************************************)
(* Python values other than str.  A dict field is one of: absent (the key  *)
(* is missing), None, a non-string scalar, a bool, or a str.               *)
(***************************************************************************)

PyAbsent == [t |-> "absent", v |-> ""]

PyNone == [t |-> "none", v |-> ""]

\* A non-string, non-dict, non-list scalar: the int 7.
PyInt == [t |-> "int", v |-> "7"]

PyTrue == [t |-> "bool", v |-> "True"]

PyFalse == [t |-> "bool", v |-> "False"]

PyStr(s) == [t |-> "str", v |-> s]

\* d.get(key, default), field being the value under the key or PyAbsent.
Get(field, default) == IF field.t = "absent" THEN default ELSE field

\* bool(x)
Truthy(x) ==
    CASE x.t = "str" -> x.v # ""
      [] x.t = "bool" -> x.v = "True"
      [] x.t = "int" -> x.v # "0"
      [] OTHER -> FALSE

\* isinstance(x, str)
IsStr(x) == x.t = "str"

\* A list-valued field: absent, not a list (None), or a list of items.
NoList == [t |-> "absent", items |-> <<>>]

NotAList == [t |-> "none", items |-> <<>>]

PyList(items) == [t |-> "list", items |-> items]

(***************************************************************************)
(* get_simplified_broadcasts: the per-candidate classification.            *)
(***************************************************************************)

\* A broadcast candidate that is a dict with these fields.
Broadcast(type, nm, description, callSign, isNational) ==
    [kind |-> "dict", type |-> type, name |-> nm, description |-> description,
     callSign |-> callSign, isNational |-> isNational]

\* A broadcast candidate that is not a dict (None).
NotADict ==
    [kind |-> "none", type |-> PyAbsent, name |-> PyAbsent, description |-> PyAbsent,
     callSign |-> PyAbsent, isNational |-> PyAbsent]

\* b_type = b_type_raw.upper() if isinstance(b_type_raw, str) else ''
b_type(broadcast) ==
    LET b_type_raw == Get(broadcast.type, PyStr(""))
    IN  IF IsStr(b_type_raw) THEN Upper(b_type_raw.v) ELSE ""

\* name = name_raw if isinstance(name_raw, str) else ''
name(broadcast) ==
    LET name_raw == Get(broadcast.name, Get(broadcast.description, PyStr("")))
    IN  IF IsStr(name_raw) THEN name_raw.v ELSE ""

\* call_sign = call_sign_raw if isinstance(call_sign_raw, str) else ''
call_sign(broadcast) ==
    LET call_sign_raw == Get(broadcast.callSign, PyStr(""))
    IN  IF IsStr(call_sign_raw) THEN call_sign_raw.v ELSE ""

\* broadcast.get('isNational'), as a condition
isNational(broadcast) == Truthy(Get(broadcast.isNational, PyNone))

\* if b_type in ["AM", "FM"]: continue
is_radio(broadcast) == b_type(broadcast) \in {"AM", "FM"}

\* if "MLB.TV" in name or b_type == "MLBTV": continue
is_streaming_brand(broadcast) ==
    Contains(name(broadcast), "MLB.TV") \/ b_type(broadcast) = "MLBTV"

is_tv_broadcast(broadcast) ==
    b_type(broadcast) = "TV" \/ (b_type(broadcast) = "" /\ name(broadcast) # "")

\* The label of a candidate whose name contains "FanDuel Sports Network".
short_name(nm) ==
    LET replaced == Strip(Replace(nm, "FanDuel Sports Network", "FanDuel"))
    IN  IF replaced = "" \/ replaced = "FanDuel" THEN "FanDuel SN"
        ELSE IF ~StartsWith(replaced, "FanDuel ") THEN "FanDuel " \o replaced
        ELSE replaced

\* The fixed list of national broadcaster names.
NationalNames == {"ESPN", "FOX", "FS1", "TBS", "Apple TV+", "Peacock", "MLB Network"}

Skipped == [bucket |-> "none", label |-> ""]

ToNational(label) == [bucket |-> "national", label |-> label]

ToRegional(label) == [bucket |-> "regional", label |-> label]

\* One iteration of the loop over all_broadcast_items: the set the candidate's
\* label is added to, and the label; Skipped when nothing is added.
classify(broadcast) ==
    LET nm == name(broadcast)
        sign == call_sign(broadcast)
    IN  IF broadcast.kind # "dict" THEN Skipped
        ELSE IF is_radio(broadcast) THEN Skipped
        ELSE IF is_streaming_brand(broadcast) THEN Skipped
        ELSE IF Contains(nm, "FanDuel Sports Network")
             THEN IF isNational(broadcast) THEN ToNational(short_name(nm))
                  ELSE ToRegional(short_name(nm))
        ELSE IF isNational(broadcast) \/ nm \in NationalNames
             THEN IF nm # "" THEN ToNational(nm) ELSE Skipped
        ELSE IF is_tv_broadcast(broadcast) \/ nm # ""
             THEN IF sign # "" /\ ~Contains(nm, sign) /\ Len(sign) < 7 /\ Len(sign) > 2
                  THEN ToRegional(sign)
                  ELSE IF nm # "" THEN ToRegional(nm)
                  ELSE Skipped
        ELSE Skipped

\* national_tv after an iteration that classified its candidate so:
\* national_tv.add(...) when the label goes to the national set.
add_national(national, classified) ==
    IF classified.bucket = "national" THEN national \cup {classified.label} ELSE national

\* A first-come variant of add_regional: once regional_tv holds a label, later
\* regional labels are dropped.
add_regional_first_only(regional, classified) ==
    IF classified.bucket = "regional" /\ regional = {} THEN {classified.label}
    ELSE regional

\* regional_tv after an iteration that classified its candidate so:
\* regional_tv.add(...) when the label goes to the regional set.
add_regional(regional, classified) ==
    IF classified.bucket = "regional" THEN regional \cup {classified.label} ELSE regional

\* The cap on the displayed list that the regional labels fill up to.
DisplayCap == 3

Max(a, b) == IF a > b THEN a ELSE b

\* A variant of build_display_list without the final ["TBD"] for an empty list.
build_display_list_no_sentinel(national, regional) ==
    LET nationals == Sorted(national)
        allowed_regional_count == Max(0, DisplayCap - Len(nationals))
    IN  IF regional # {} /\ allowed_regional_count > 0
        THEN nationals \o Take(Sorted(regional), allowed_regional_count)
        ELSE nationals

\* A variant of build_display_list whose regional allowance ignores the
\* national labels already in the list.
build_display_list_full_allowance(national, regional) ==
    LET display == Sorted(national) \o Take(Sorted(regional), DisplayCap)
    IN  IF display = <<>> THEN <<"TBD">> ELSE display

\* display_list as returned, from the two sets.
build_display_list(national, regional) ==
    LET nationals == Sorted(national)
        allowed_regional_count == Max(0, DisplayCap - Len(nationals))
        display == IF regional # {} /\ allowed_regional_count > 0
                   THEN nationals \o Take(Sorted(regional), allowed_regional_count)
                   ELSE nationals
    IN  IF display = <<>> THEN <<"TBD">> ELSE display

(***************************************************************************)
(* get_simplified_broadcasts: the candidate pool of a raw game record.     *)
(***************************************************************************)

\* A program-guide group that is a dict, and one that is not (None).
Group(title, items) == [kind |-> "dict", title |-> title, items |-> items]

NotAGroup == [kind |-> "none", title |-> PyAbsent, items |-> NoList]

\* game_data_item['content']['media'] and game_data_item['content'].
NoMedia == [t |-> "absent", epg |-> NoList]

MediaNone == [t |-> "none", epg |-> NoList]

Media(epg) == [t |-> "dict", epg |-> epg]

NoContent == [t |-> "absent", media |-> NoMedia]

ContentNone == [t |-> "none", media |-> NoMedia]

Content(media) == [t |-> "dict", media |-> media]

Raised == [raised |-> TRUE, value |-> <<>>]

Returned(value) == [raised |-> FALSE, value |-> value]

\* epg_title = epg_title_raw.upper() if isinstance(epg_title_raw, str) else ''
epg_title(epg_group) ==
    LET epg_title_raw == Get(epg_group.title, PyStr(""))
    IN  IF IsStr(epg_title_raw) THEN Upper(epg_title_raw.v) ELSE ""

\* The loop over the program-guide groups: the items it appends, or the
\* AttributeError of epg_group.get on a group that is not a dict.
RECURSIVE epg_items(_)
epg_items(groups) ==
    IF groups = <<>> THEN Returned(<<>>)
    ELSE IF Head(groups).kind # "dict" THEN Raised
    ELSE LET rest == epg_items(Tail(groups))
             mine == IF /\ epg_title(Head(groups)) \in {"MLBTV", "TV"}
                        /\ Head(groups).items.t = "list"
                     THEN Head(groups).items.items ELSE <<>>
         IN  IF rest.raised THEN Raised ELSE Returned(mine \o rest.value)

\* all_broadcast_items as the loop finds it, or the TypeError of a membership
\* test ('media' in None, 'epg' in None).
collect_items(game_data_item) ==
    LET flat == IF game_data_item.broadcasts.t = "list"
                THEN game_data_item.broadcasts.items ELSE <<>>
        content == game_data_item.content
    IN  IF content.t = "absent" THEN Returned(flat)
        ELSE IF content.t # "dict" THEN Raised
        ELSE IF content.media.t = "absent" THEN Returned(flat)
        ELSE IF content.media.t # "dict" THEN Raised
        ELSE IF content.media.epg.t # "list" THEN Returned(flat)
        ELSE LET guide == epg_items(content.media.epg.items)
             IN  IF guide.raised THEN Raised ELSE Returned(flat \o guide.value)

\* The two sets after iterations that classified their candidates so, in this
\* order, from these two sets.
RECURSIVE add_all(_, _, _)
add_all(classified, national, regional) ==
    IF classified = <<>> THEN [national |-> national, regional |-> regional]
    ELSE add_all(Tail(classified), add_national(national, Head(classified)),
                 add_regional(regional, Head(classified)))

\* The two sets after the loop over these items.
classify_all(items) == add_all([i \in 1..Len(items) |-> classify(items[i])], {}, {})

\* The whole function: what it returns, or that it raises.
get_simplified_broadcasts(game_data_item) ==
    LET pool == collect_items(game_data_item)
        sets == classify_all(pool.value)
    IN  IF pool.raised THEN Raised
        ELSE IF pool.value = <<>> THEN Returned(<<"TBD">>)
        ELSE Returned(build_display_list(sets.national, sets.regional))

(***************************************************************************)
(* The raw game records the normalizer is run on.                          *)
(***************************************************************************)

\* The longest flat 'broadcasts' list.
MaxFlat == 2

FoxNational == Broadcast(PyStr("TV"), PyStr("FOX"), PyAbsent, PyAbsent, PyTrue)

BallyMidwest ==
    Broadcast(PyStr("TV"), PyStr("Bally Sports Midwest"), PyAbsent, PyStr("BSMW"), PyAbsent)

KmoxAM == Broadcast(PyStr("AM"), PyStr("KMOX"), PyAbsent, PyAbsent, PyAbsent)

EspnRadioFm == Broadcast(PyStr("fm"), PyStr("ESPN"), PyAbsent, PyStr("WXOS"), PyTrue)

EspnByName == Broadcast(PyStr("TV"), PyStr("ESPN"), PyAbsent, PyAbsent, PyFalse)

AppleByDescription == Broadcast(PyAbsent, PyAbsent, PyStr("Apple TV+"), PyAbsent, PyAbsent)

FanDuelExact ==
    Broadcast(PyStr("TV"), PyStr("FanDuel Sports Network"), PyAbsent, PyStr("FDSN"), PyFalse)

FanDuelMidwestNational ==
    Broadcast(PyStr("TV"), PyStr("FanDuel Sports Network Midwest"), PyAbsent, PyStr("FDMW"), PyTrue)

FanDuelJoined ==
    Broadcast(PyStr("TV"), PyStr("FanDuel Sports NetworkMidwest"), PyAbsent, PyAbsent, PyAbsent)

StreamingByName == Broadcast(PyStr("TV"), PyStr("MLB.TV"), PyAbsent, PyAbsent, PyTrue)

StreamingByType == Broadcast(PyStr("mlbtv"), PyStr("Peacock"), PyAbsent, PyAbsent, PyAbsent)

StreamingCallSign == Broadcast(PyStr("TV"), PyStr("KPLR"), PyAbsent, PyStr("MLB.TV"), PyFalse)

Nameless == Broadcast(PyStr("TV"), PyNone, PyStr("KSDK"), PyInt, PyNone)

KtviCallSignFox == Broadcast(PyStr("TV"), PyStr("KTVI"), PyAbsent, PyStr("FOX"), PyAbsent)

TbdUntyped == Broadcast(PyNone, PyStr("TBD"), PyAbsent, PyStr("TBD"), PyAbsent)

Candidates ==
    {FoxNational, BallyMidwest, KmoxAM, EspnRadioFm, EspnByName, AppleByDescription,
     FanDuelExact, FanDuelMidwestNational, FanDuelJoined, StreamingByName,
     StreamingByType, StreamingCallSign, Nameless, KtviCallSignFox, TbdUntyped,
     NotADict}

SeqsUpTo(S, n) == UNION {[1..k -> S] : k \in 0..n}

\* The flat list of the scenario: a national TV entry, a regional one with a
\* call sign, and an AM radio entry.
ScenarioBroadcasts == <<FoxNational, BallyMidwest, KmoxAM>>

\* game_data_item['broadcasts']: missing, None, or a list of candidates.
BroadcastsFields ==
    {NoList, NotAList, PyList(ScenarioBroadcasts)}
        \cup {PyList(l) : l \in SeqsUpTo(Candidates, MaxFlat)}

\* game_data_item['content']: missing, malformed at each level, or holding a
\* program guide.
Contents ==
    {NoContent, ContentNone, Content(NoMedia), Content(MediaNone),
     Content(Media(NoList)), Content(Media(NotAList)),
     Content(Media(PyList(<<NotAGroup>>))),
     Content(Media(PyList(<<Group(PyStr("TV"),
                                  PyList(<<AppleByDescription, EspnByName>>))>>))),
     Content(Media(PyList(<<Group(PyStr("mlbtv"), PyList(<<BallyMidwest>>)),
                            Group(PyStr("Radio"), PyList(<<FoxNational>>))>>))),
     Content(Media(PyList(<<Group(PyInt, PyList(<<FoxNational>>)),
                            Group(PyStr("TV"), NotAList),
                            Group(PyAbsent, PyList(<<EspnByName>>))>>))),
     Content(Media(PyList(<<Group(PyStr("Tv"),
                                  PyList(<<KtviCallSignFox, TbdUntyped>>))>>)))}

GameRecords == {[broadcasts |-> b, content |-> c] : b \in BroadcastsFields, c \in Contents}

(***************************************************************************)
(* fetch_cardinals_data, the schedule part: one game of the response.      *)
(***************************************************************************)

\* A team id, an int.
TeamId(digits) == [t |-> "int", v |-> digits]

\* TEAM_ID, the team_id argument of the one call of fetch_cardinals_data.
TEAM_ID == TeamId("138")

\* teams_data['home'] or ['away'] holding a 'team' dict with this id and name;
\* NoTeam when the side is missing or not a dict.
Team(id, nm) == [t |-> "dict", id |-> id, name |-> nm]

NoTeam == [t |-> "absent", id |-> PyAbsent, name |-> PyAbsent]

\* game_data['teams']: a dict of the two sides, or None.
Teams(home, away) == [t |-> "dict", home |-> home, away |-> away]

TeamsNone == [t |-> "none", home |-> NoTeam, away |-> NoTeam]

\* A game of the response.  status is PyStr(s) for a 'status' dict whose
\* abstractGameState is s, PyAbsent for no 'status' key, PyNone for a
\* 'status' that is not a dict.
Game(status, teams, broadcasts, content) ==
    [status |-> status, teams |-> teams, broadcasts |-> broadcasts, content |-> content]

\* game_status
game_status(game_data) ==
    IF game_data.status.t = "str" THEN game_data.status.v ELSE "Unknown"

\* A variant of is_terminal that lets cancelled games through.
is_terminal_without_cancelled(status) ==
    status \in {"Final", "Game Over", "Completed Early"}

\* if game_status in ["Final", "Game Over", "Completed Early", "Cancelled"]: continue
is_terminal(status) == status \in {"Final", "Game Over", "Completed Early", "Cancelled"}

home_id(game_data) == Get(game_data.teams.home.id, PyNone)

away_id(game_data) == Get(game_data.teams.away.id, PyNone)

\* opponent_name, when one of the two ids is team_id.
opponent_name(game_data, team_id) ==
    IF home_id(game_data) = team_id
    THEN "vs " \o Get(game_data.teams.away.name, PyStr("Opponent")).v
    ELSE "@ " \o Get(game_data.teams.home.name, PyStr("Opponent")).v

Discard == [kind |-> "continue", entry |-> <<>>]

RaiseInGame == [kind |-> "raise", entry |-> <<>>]

Appended(entry) == [kind |-> "append", entry |-> <<entry>>]

\* The body of the inner loop for one game, past the count check: the game is
\* discarded, or an exception is raised (teams_data.get on None, or
\* get_simplified_broadcasts raising), or an entry is appended to games_info.
game_outcome(game_data, team_id) ==
    IF is_terminal(game_status(game_data)) THEN Discard
    ELSE IF game_data.teams.t # "dict" THEN RaiseInGame
    ELSE IF home_id(game_data) # team_id /\ away_id(game_data) # team_id THEN Discard
    ELSE IF get_simplified_broadcasts(game_data).raised THEN RaiseInGame
    ELSE Appended([opponent |-> opponent_name(game_data, team_id),
                   broadcast |-> get_simplified_broadcasts(game_data).value,
                   status |-> game_status(game_data)])

\* A variant of schedule_except that empties games_info.
schedule_except_clearing(games) == <<>>

\* The except block of the schedule part: it prints, and leaves games_info.
schedule_except(games) == games

(***************************************************************************)
(* The schedule responses fetch_cardinals_data is run on.                  *)
(***************************************************************************)

\* The most date objects in a response, and the largest num_days.
MaxDates == 2

MaxDays == 2

Cardinals == Team(TEAM_ID, PyStr("St. Louis Cardinals"))

Cubs == Team(TeamId("112"), PyStr("Chicago Cubs"))

Brewers == Team(TeamId("158"), PyAbsent)

HomePreview ==
    Game(PyStr("Preview"), Teams(Cardinals, Cubs), PyList(ScenarioBroadcasts), NoContent)

AwayNoStatus == Game(PyNone, Teams(Brewers, Cardinals), NoList, NoContent)

HomeFinal == Game(PyStr("Final"), Teams(Cardinals, Cubs), NoList, NoContent)

AwayGameOver == Game(PyStr("Game Over"), Teams(Cubs, Cardinals), NoList, NoContent)

HomeCompletedEarly ==
    Game(PyStr("Completed Early"), Teams(Cardinals, Brewers), NoList, NoContent)

AwayCancelled == Game(PyStr("Cancelled"), Teams(Cubs, Cardinals), NoList, NoContent)

OtherTeams == Game(PyStr("Preview"), Teams(Cubs, Brewers), NoList, NoContent)

BadTeams == Game(PyStr("Live"), TeamsNone, NoList, NoContent)

BadGuide == Game(PyStr("Preview"), Teams(Cardinals, Cubs), NoList, ContentNone)

GameCatalog ==
    {HomePreview, AwayNoStatus, HomeFinal, AwayGameOver, HomeCompletedEarly,
     AwayCancelled, OtherTeams, BadTeams, BadGuide}

\* The games of the dates that hold two games.
DoubleHeaderGames == {HomePreview, AwayNoStatus, HomeFinal}

\* A date object that is a dict with these games, and one that is not (None).
DateObj(games) == [kind |-> "dict", games |-> games]

NotADate == [kind |-> "none", games |-> <<>>]

DateObjs ==
    {NotADate} \cup {DateObj(g) : g \in SeqsUpTo(GameCatalog, 1)}
        \cup {DateObj(<<a, b>>) : a, b \in DoubleHeaderGames}

\* statsapi.get('schedule', ...): it raises, it returns nothing usable (a
\* falsy value or no 'dates' key), or it returns dates.
ResponseRaises == [kind |-> "raises", dates |-> <<>>]

ResponseEmpty == [kind |-> "empty", dates |-> <<>>]

Dates(dates) == [kind |-> "dates", dates |-> dates]

ScheduleResponses ==
    {ResponseRaises, ResponseEmpty} \cup {Dates(d) : d \in SeqsUpTo(DateObjs, MaxDates)}

NoRecord == [broadcasts |-> NoList, content |-> NoContent]

(***************************************************************************)
(* fetch_cardinals_data, the standings part: one group of the response.    *)
(***************************************************************************)

\* An int with these decimal digits.
PyNum(digits) == [t |-> "int", v |-> digits]

\* f"{x}" for a value that is a str, an int, a bool or None.
Format(x) == IF x.t = "none" THEN "None" ELSE x.v

\* team_standing['team'] that is not a dict (None).
TeamNotADict == [t |-> "none", id |-> PyAbsent, name |-> PyAbsent]

\* team_standing['leagueRecord']: a dict with these fields, missing, or not a
\* dict (None).
LeagueRecord(wins, losses) == [t |-> "dict", wins |-> wins, losses |-> losses]

NoLeagueRecord == [t |-> "absent", wins |-> PyAbsent, losses |-> PyAbsent]

LeagueRecordNone == [t |-> "none", wins |-> PyAbsent, losses |-> PyAbsent]

\* A team record that is a dict with these fields, and one that is not (None).
TeamStanding(team, leagueRecord, divisionRank, leagueRank, gamesBack) ==
    [kind |-> "dict", team |-> team, leagueRecord |-> leagueRecord,
     divisionRank |-> divisionRank, leagueRank |-> leagueRank, gamesBack |-> gamesBack]

NotATeamStanding ==
    [kind |-> "none", team |-> NoTeam, leagueRecord |-> NoLeagueRecord,
     divisionRank |-> PyAbsent, leagueRank |-> PyAbsent, gamesBack |-> PyAbsent]

\* record['division'] or record['league']: a dict whose nameShort is this
\* field, missing, or not a dict (None).
Named(nameShort) == [t |-> "dict", nameShort |-> nameShort]

NoNamed == [t |-> "absent", nameShort |-> PyAbsent]

NamedNone == [t |-> "none", nameShort |-> PyAbsent]

\* A group of the standings response that is a dict with these fields, and one
\* that is not (None).
StandingsRecord(division, league, teamRecords) ==
    [kind |-> "dict", division |-> division, league |-> league,
     teamRecords |-> teamRecords]

NotAStandingsRecord ==
    [kind |-> "none", division |-> NoNamed, league |-> NoNamed, teamRecords |-> NoList]

\* standings_info as initialised.
NoStandings == [record |-> "N/A", rank |-> "N/A", gb |-> "N/A"]

\* division_name, a value that the f-string formats.
division_name(record) ==
    LET from_division ==
            IF record.division.t = "dict"
            THEN Get(record.division.nameShort, PyStr("N/A")) ELSE PyStr("N/A")
    IN  IF from_division = PyStr("N/A") /\ record.league.t # "absent"
        THEN IF record.league.t = "dict"
             THEN Get(record.league.nameShort, PyStr("League")) ELSE PyStr("League")
        ELSE from_division

\* wins and losses
wins(team_standing) ==
    IF team_standing.leagueRecord.t = "dict"
    THEN Get(team_standing.leagueRecord.wins, PyNum("0")) ELSE PyNum("0")

losses(team_standing) ==
    IF team_standing.leagueRecord.t = "dict"
    THEN Get(team_standing.leagueRecord.losses, PyNum("0")) ELSE PyNum("0")

\* A variant of rank_val that prefers the league rank.
rank_val_league_first(team_standing) ==
    Get(team_standing.leagueRank, Get(team_standing.divisionRank, PyStr("N/A")))

\* rank_val
rank_val(team_standing) ==
    Get(team_standing.divisionRank, Get(team_standing.leagueRank, PyStr("N/A")))

\* gb_val, after the replacement of '-'.
gb_val(team_standing) ==
    LET raw == Get(team_standing.gamesBack, PyStr("N/A"))
    IN  IF raw = PyStr("-") THEN PyStr("0.0") ELSE raw

\* standings_info as lines 325-335 fill it from the team record of the target.
standings_of(team_standing, record) ==
    [record |-> Format(wins(team_standing)) \o "-" \o Format(losses(team_standing)),
     rank |-> Format(rank_val(team_standing)) \o " in " \o Format(division_name(record)),
     gb |-> Format(gb_val(team_standing)) \o " GB"]

\* Whether the inner loop stops at this team record: it is a dict, its 'team'
\* is a dict, and the id of that is team_id.
is_target(team_standing, team_id) ==
    /\ team_standing.kind = "dict"
    /\ team_standing.team.t = "dict"
    /\ Get(team_standing.team.id, PyNone) = team_id

\* The team record the inner loop stops at, as a sequence of at most one.
RECURSIVE first_target(_, _)
first_target(teamRecords, team_id) ==
    IF teamRecords = <<>> THEN <<>>
    ELSE IF is_target(Head(teamRecords), team_id) THEN <<Head(teamRecords)>>
    ELSE first_target(Tail(teamRecords), team_id)

SkipRecord == [kind |-> "continue", info |-> NoStandings]

RaiseInRecord == [kind |-> "raise", info |-> NoStandings]

FoundIn(info) == [kind |-> "found", info |-> info]

\* One iteration of the outer loop, past the found_team test: the group is
\* skipped or holds no target, or the iteration over a 'teamRecords' that is
\* not a list raises, or standings_info is filled.
record_outcome(record, team_id) ==
    IF record.kind # "dict" \/ record.teamRecords.t = "absent" THEN SkipRecord
    ELSE IF record.teamRecords.t # "list" THEN RaiseInRecord
    ELSE LET target == first_target(record.teamRecords.items, team_id)
         IN  IF target = <<>> THEN SkipRecord
             ELSE FoundIn(standings_of(target[1], record))

(***************************************************************************)
(* The standings responses fetch_cardinals_data is run on.                 *)
(***************************************************************************)

\* The most groups in a standings response.
MaxRecords == 2

\* The team record of the scenario: 10 wins, 5 losses, division rank "1",
\* games back "-".
CardinalsFirst ==
    TeamStanding(Cardinals, LeagueRecord(PyNum("10"), PyNum("5")), PyStr("1"),
                 PyStr("3"), PyStr("-"))

\* The target without a division rank, three and a half games back.
CardinalsLeagueRank ==
    TeamStanding(Cardinals, LeagueRecord(PyNum("7"), PyNum("9")), PyAbsent,
                 PyStr("4"), PyStr("3.5"))

\* The target with none of the optional fields.
CardinalsBare == TeamStanding(Cardinals, LeagueRecordNone, PyAbsent, PyAbsent, PyAbsent)

CubsSecond ==
    TeamStanding(Cubs, LeagueRecord(PyNum("9"), PyNum("6")), PyStr("2"), PyStr("5"),
                 PyStr("1.0"))

\* A team record whose team id is the text "138", not the int.
TextId ==
    TeamStanding(Team(PyStr("138"), PyStr("St. Louis Cardinals")),
                 LeagueRecord(PyNum("1"), PyNum("2")), PyStr("5"), PyAbsent, PyStr("9.0"))

NoTeamKey == TeamStanding(NoTeam, NoLeagueRecord, PyStr("1"), PyAbsent, PyStr("-"))

TeamNotDict == TeamStanding(TeamNotADict, NoLeagueRecord, PyStr("1"), PyAbsent, PyStr("-"))

NLCentral == Named(PyStr("NL Central"))

NationalLeague == Named(PyStr("NL"))

\* The groups of the responses.
StandingsRecords ==
    {NotAStandingsRecord,
     StandingsRecord(NLCentral, NationalLeague, NoList),
     StandingsRecord(NLCentral, NationalLeague, NotAList),
     StandingsRecord(NLCentral, NationalLeague, PyList(<<CubsSecond, CardinalsFirst>>)),
     StandingsRecord(NLCentral, NoNamed,
                     PyList(<<NotATeamStanding, NoTeamKey, TeamNotDict, TextId>>)),
     StandingsRecord(Named(PyStr("NL East")), NoNamed,
                     PyList(<<CardinalsLeagueRank, CardinalsFirst>>)),
     StandingsRecord(NoNamed, NationalLeague, PyList(<<CardinalsBare>>)),
     StandingsRecord(Named(PyAbsent), NamedNone, PyList(<<CardinalsLeagueRank>>)),
     StandingsRecord(NamedNone, Named(PyAbsent), PyList(<<CardinalsFirst>>)),
     StandingsRecord(NoNamed, NoNamed, PyList(<<CubsSecond, CardinalsBare>>))}

\* statsapi.get('standings', ...): it raises, it returns nothing usable (a
\* falsy value or no 'records' key), or it returns records.
StandingsRaises == [kind |-> "raises", records |-> <<>>]

StandingsEmpty == [kind |-> "empty", records |-> <<>>]

Records(records) == [kind |-> "records", records |-> records]

StandingsResponses ==
    {StandingsRaises, StandingsEmpty}
        \cup {Records(r) : r \in SeqsUpTo(StandingsRecords, MaxRecords)}

\* The standings response of the scenario.
ScenarioStandings ==
    Records(<<StandingsRecord(NLCentral, NationalLeague,
                              PyList(<<CubsSecond, CardinalsFirst>>))>>)

(***************************************************************************)
(* format_game_time: datetime.strptime, strftime and the timezone          *)
(* conversion on the texts and zones of the model.                         *)
(***************************************************************************)

Digits == "0123456789"

IsDigit(c) == \E i \in 1..Len(Digits) : CharAt(Digits, i) = c

DigitValue(c) == (CHOOSE i \in 1..Len(Digits) : CharAt(Digits, i) = c) - 1

AllDigits(s) == \A i \in 1..Len(s) : IsDigit(CharAt(s, i))

\* int(s) for a text of digits.
RECURSIVE ToInt(_)
ToInt(s) ==
    IF s = "" THEN 0
    ELSE 10 * ToInt(SubSeq(s, 1, Len(s) - 1)) + DigitValue(CharAt(s, Len(s)))

\* str(n) for n >= 0, and n in two digits as %d and %M give it.
RECURSIVE ToText(_)
ToText(n) ==
    IF n < 10 THEN CharAt(Digits, n + 1)
    ELSE ToText(n \div 10) \o CharAt(Digits, (n % 10) + 1)

TwoDigits(n) == IF n < 10 THEN "0" \o ToText(n) ELSE ToText(n)

\* s.split(sep) for a separator of one character.
RECURSIVE Split(_, _)
Split(s, sep) ==
    IF ~Contains(s, sep) THEN <<s>>
    ELSE LET at == CHOOSE i \in 1..Len(s) :
                       /\ CharAt(s, i) = sep
                       /\ \A j \in 1..(i - 1) : CharAt(s, j) # sep
         IN  <<SubSeq(s, 1, at - 1)>> \o Split(SubSeq(s, at + 1, Len(s)), sep)

\* s.endswith(suffix)
EndsWith(s, suffix) ==
    Len(s) >= Len(suffix) /\ SubSeq(s, Len(s) - Len(suffix) + 1, Len(s)) = suffix

\* A variant of strip_z that leaves the text as it is.
keep_z(text) == text

\* Lines 121-122: one trailing 'Z' is dropped.
strip_z(text) == IF EndsWith(text, "Z") THEN SubSeq(text, 1, Len(text) - 1) ELSE text

\* What the directives of strptime accept: %Y four digits, from year 1; %m
\* and %d one or two digits in range (%d also a space and a digit); %H, %M and
\* %S one or two digits in range, a second of 60 or 61 being refused by the
\* datetime constructor; %f one to six digits.
InRange(s, low, high) ==
    /\ Len(s) \in 1..2
    /\ AllDigits(s)
    /\ ToInt(s) >= low
    /\ ToInt(s) <= high

AcceptsYear(s) == Len(s) = 4 /\ AllDigits(s) /\ ToInt(s) >= 1

AcceptsMonth(s) == InRange(s, 1, 12)

AcceptsDay(s) ==
    \/ InRange(s, 1, 31)
    \/ Len(s) = 2 /\ CharAt(s, 1) = " " /\ InRange(CharAt(s, 2), 1, 9)

AcceptsHour(s) == InRange(s, 0, 23)

AcceptsMinute(s) == InRange(s, 0, 59)

AcceptsSecond(s) == InRange(s, 0, 59)

AcceptsFraction(s) == Len(s) \in 1..6 /\ AllDigits(s)

IsLeap(year) == (year % 4 = 0 /\ year % 100 # 0) \/ year % 400 = 0

DaysInMonth(year, month) ==
    IF month = 2 THEN (IF IsLeap(year) THEN 29 ELSE 28)
    ELSE IF month \in {4, 6, 9, 11} THEN 30 ELSE 31

\* The ValueError of strptime, and the datetime it returns.
NoDateTime == [ok |-> FALSE, year |-> 0, month |-> 0, day |-> 0, hour |-> 0, minute |-> 0]

DateTime(year, month, day, hour, minute) ==
    [ok |-> TRUE, year |-> year, month |-> month, day |-> day, hour |-> hour,
     minute |-> minute]

\* datetime.strptime(text, "%Y-%m-%d")
strptime_date(text) ==
    LET parts == Split(text, "-")
    IN  IF /\ Len(parts) = 3
           /\ AcceptsYear(parts[1])
           /\ AcceptsMonth(parts[2])
           /\ AcceptsDay(parts[3])
           /\ ToInt(Strip(parts[3])) <= DaysInMonth(ToInt(parts[1]), ToInt(parts[2]))
        THEN DateTime(ToInt(parts[1]), ToInt(parts[2]), ToInt(Strip(parts[3])), 0, 0)
        ELSE NoDateTime

\* datetime.strptime(text, "%Y-%m-%dT%H:%M:%S") and, with .%f at the end,
\* "%Y-%m-%dT%H:%M:%S.%f"; the seconds and their fraction are not kept, no
\* output shows them.
strptime_datetime(text, fraction) ==
    LET halves == Split(text, "T")
        date == strptime_date(halves[1])
        clock == Split(halves[2], ":")
        seconds == Split(clock[3], ".")
    IN  IF /\ Len(halves) = 2
           /\ date.ok
           /\ Len(clock) = 3
           /\ AcceptsHour(clock[1])
           /\ AcceptsMinute(clock[2])
           /\ IF fraction
              THEN Len(seconds) = 2 /\ AcceptsSecond(seconds[1])
                                    /\ AcceptsFraction(seconds[2])
              ELSE AcceptsSecond(clock[3])
        THEN DateTime(date.year, date.month, date.day, ToInt(clock[1]), ToInt(clock[2]))
        ELSE NoDateTime

\* The days from 0001-01-01, a Monday, to this date, that day counted as 1.
DaysBeforeMonth(year, month) ==
    LET RECURSIVE Sum(_)
        Sum(m) == IF m = 0 THEN 0 ELSE DaysInMonth(year, m) + Sum(m - 1)
    IN  Sum(month - 1)

Ordinal(year, month, day) ==
    365 * (year - 1) + ((year - 1) \div 4) - ((year - 1) \div 100)
        + ((year - 1) \div 400) + DaysBeforeMonth(year, month) + day

\* %a and %b
WeekdayNames == <<"Sun", "Mon", "Tue", "Wed", "Thu", "Fri", "Sat">>

MonthNames ==
    <<"Jan", "Feb", "Mar", "Apr", "May", "Jun", "Jul", "Aug", "Sep", "Oct", "Nov", "Dec">>

Weekday(year, month, day) == WeekdayNames[(Ordinal(year, month, day) % 7) + 1]

\* dt.strftime("%a %b %d")
strftime_day(dt) ==
    Weekday(dt.year, dt.month, dt.day) \o " " \o MonthNames[dt.month] \o " "
        \o TwoDigits(dt.day)

\* dt.strftime("%a %b %d (Time TBD)")
strftime_date(dt) == strftime_day(dt) \o " (Time TBD)"

\* The zones pytz.timezone finds among the model's arguments; for any other
\* argument it raises.
KnownZones == {"UTC", "America/Chicago"}

timezone_raises(target_tz_str) == ~(IsStr(target_tz_str) /\ target_tz_str.v \in KnownZones)

\* The day of the month of the n-th Sunday of a month.
NthSunday(year, month, n) ==
    CHOOSE day \in (7 * n - 6)..(7 * n) : Weekday(year, month, day) = "Sun"

\* A UTC time as minutes from the start of its year's January.
Stamp(month, day, hour, minute) == ((month * 32 + day) * 24 + hour) * 60 + minute

\* Whether America/Chicago is on daylight time at this UTC time: from 08:00
\* UTC on the second Sunday of March to 07:00 UTC on the first Sunday of
\* November, the rule of the years the model's texts are in.
is_dst(dt) ==
    /\ Stamp(dt.month, dt.day, dt.hour, dt.minute)
           >= Stamp(3, NthSunday(dt.year, 3, 2), 8, 0)
    /\ Stamp(dt.month, dt.day, dt.hour, dt.minute)
           < Stamp(11, NthSunday(dt.year, 11, 1), 7, 0)

\* The offset from UTC in hours, and %Z.
utc_offset_hours(dt, zone) ==
    IF zone = "UTC" THEN 0 ELSE IF is_dst(dt) THEN 0 - 5 ELSE 0 - 6

zone_name(dt, zone) ==
    IF zone = "UTC" THEN "UTC" ELSE IF is_dst(dt) THEN "CDT" ELSE "CST"

\* The day before a date; the OverflowError of a date before year 1 is ok = FALSE.
day_before(dt) ==
    IF dt.day > 1 THEN [dt EXCEPT !.day = dt.day - 1]
    ELSE IF dt.month > 1
    THEN [dt EXCEPT !.month = dt.month - 1, !.day = DaysInMonth(dt.year, dt.month - 1)]
    ELSE IF dt.year > 1 THEN [dt EXCEPT !.year = dt.year - 1, !.month = 12, !.day = 31]
    ELSE NoDateTime

\* utc_tz.localize(dt_utc).astimezone(target_tz), for an offset of 0 or west.
astimezone(dt, zone) ==
    LET hour == dt.hour + utc_offset_hours(dt, zone)
    IN  IF hour >= 0 THEN [dt EXCEPT !.hour = hour]
        ELSE IF day_before(dt).ok THEN [day_before(dt) EXCEPT !.hour = hour + 24]
        ELSE NoDateTime

\* dt_target.strftime("%a %b %d, %-I:%M %p %Z"), zone_text being %Z.
strftime_time(dt, zone_text) ==
    strftime_day(dt) \o ", "
        \o ToText(IF dt.hour % 12 = 0 THEN 12 ELSE dt.hour % 12) \o ":"
        \o TwoDigits(dt.minute) \o " " \o (IF dt.hour < 12 THEN "AM" ELSE "PM") \o " "
        \o zone_text

\* Lines 123-132: the first of the three formats that the text matches; "none"
\* when all three raise ValueError.
matched_format(text) ==
    IF strptime_datetime(text, FALSE).ok THEN "seconds"
    ELSE IF strptime_datetime(text, TRUE).ok THEN "fraction"
    ELSE IF strptime_date(text).ok THEN "date"
    ELSE "none"

\* Lines 141-143, and lines 144-146 when the conversion raises.
converted(dt_utc, zone) ==
    IF astimezone(dt_utc, zone).ok
    THEN strftime_time(astimezone(dt_utc, zone), zone_name(dt_utc, zone))
    ELSE "Time TBD"

\* The whole function.
format_game_time(game_date_utc_str, target_tz_str) ==
    IF ~IsStr(game_date_utc_str) THEN "Time TBD"
    ELSE IF timezone_raises(target_tz_str) THEN "Time TBD"
    ELSE LET text == strip_z(game_date_utc_str.v)
             fmt == matched_format(text)
         IN  IF fmt = "date" THEN strftime_date(strptime_date(text))
             ELSE IF fmt = "none"
             THEN IF strptime_date(Split(text, "T")[1]).ok
                  THEN strftime_date(strptime_date(Split(text, "T")[1]))
                  ELSE "Time TBD"
             ELSE converted(strptime_datetime(text, fmt = "fraction"), target_tz_str.v)

(***************************************************************************)
(* The raw values and zone arguments format_game_time is run on.           *)
(***************************************************************************)

\* The date portions: valid ones, among them the two days on which daylight
\* time starts and ends in 2024 and a new year's day; 29 February of a year
\* that has none; fields without padding; and texts that are no dates.
DateTexts ==
    {"2024-05-20", "2024-03-10", "2024-11-03", "2025-01-01", "2024-02-29",
     "2023-02-29", "2024-5-2", "2024-13-01", "24-05-20", "TBD", ""}

\* What follows the date portion: nothing, times to the second around
\* the changes of the clock, a fraction of six and one of seven digits, an hour
\* and a second out of range, a time without seconds, a bare 'T', unpadded
\* fields, and a space in place of the 'T'.
TimeTexts ==
    {"", "T18:15:00", "T00:30:00", "T07:59:59", "T08:00:00", "T06:59:59", "T07:00:00",
     "T12:00:00.000000", "T12:00:00.1234567", "T25:00:00", "T18:15:60", "T18:15", "T",
     "T7:5:3", " 18:15:00"}

ZSuffixes == {"", "Z", "ZZ"}

\* game_date_utc_str: None, an int, or a text.
RawTimes ==
    {PyNone, PyInt}
        \cup {PyStr(d \o t \o z) : d \in DateTexts, t \in TimeTexts, z \in ZSuffixes}

\* target_tz_str: DISPLAY_TIMEZONE, UTC, a name pytz does not know, and None.
DISPLAY_TIMEZONE == PyStr("America/Chicago")

ZoneArguments == {DISPLAY_TIMEZONE, PyStr("UTC"), PyStr("Mars/Olympus"), PyNone}

(***************************************************************************)
(* get_simplified_broadcasts as a state machine: one call on one record.   *)
(***************************************************************************)

VARIABLES
    game_data_item,       \* the argument
    pc,                   \* "collect", "loop", "done" (returned), "raised"; "idle"
    all_broadcast_items,  \* the candidate pool
    next_item,            \* the position of the loop in all_broadcast_items
    national_tv,
    regional_tv,
    display_list,         \* the returned list, once pc = "done"
    schedule_response,    \* what statsapi.get('schedule', ...) does
    num_days,
    fetch_pc,             \* "schedule", "dates", "games", "standings", "returned"; "idle"
    date_index,           \* the position of the outer loop in the dates
    game_index,           \* the position of the inner loop in the date's games
    processed_games_count,
    games_info,
    schedule_raised,      \* whether the except block of the schedule part ran
    standings_response,   \* what statsapi.get('standings', ...) does
    standings_pc,         \* "call", "records", "done"; "idle"
    record_index,         \* the position of the outer loop in the records
    found_team,
    standings_info,
    standings_raised,     \* whether the except block of the standings part ran
    game_date_arg,        \* format_game_time's first argument as passed
    game_date_utc_str,    \* the same, as line 122 reassigns it
    target_tz_str,
    format_pc,            \* "check", "timezone", "formats", "fallback", "convert", "done"; "idle"
    dt_utc,
    formatted_time        \* the returned text, once format_pc = "done"

broadcast_vars ==
    <<game_data_item, pc, all_broadcast_items, next_item, national_tv, regional_tv,
      display_list>>

fetch_vars ==
    <<schedule_response, num_days, fetch_pc, date_index, game_index,
      processed_games_count, games_info, schedule_raised>>

standings_vars ==
    <<standings_response, standings_pc, record_index, found_team, standings_info,
      standings_raised>>

format_vars ==
    <<game_date_arg, game_date_utc_str, target_tz_str, format_pc, dt_utc, formatted_time>>

vars == <<broadcast_vars, fetch_vars, standings_vars, format_vars>>

\* No call of get_simplified_broadcasts is being followed.
BroadcastIdle ==
    /\ game_data_item = NoRecord
    /\ pc = "idle"
    /\ all_broadcast_items = <<>>
    /\ next_item = 1
    /\ national_tv = {}
    /\ regional_tv = {}
    /\ display_list = <<>>

\* No call of fetch_cardinals_data is being followed.
FetchIdle ==
    /\ schedule_response = ResponseEmpty
    /\ num_days = 0
    /\ fetch_pc = "idle"
    /\ date_index = 1
    /\ game_index = 1
    /\ processed_games_count = 0
    /\ games_info = <<>>
    /\ schedule_raised = FALSE

\* The standings part is not being followed.
StandingsIdle ==
    /\ standings_response = StandingsEmpty
    /\ standings_pc = "idle"
    /\ record_index = 1
    /\ found_team = FALSE
    /\ standings_info = NoStandings
    /\ standings_raised = FALSE

\* No call of format_game_time is being followed.
FormatIdle ==
    /\ game_date_arg = PyNone
    /\ game_date_utc_str = PyNone
    /\ target_tz_str = DISPLAY_TIMEZONE
    /\ format_pc = "idle"
    /\ dt_utc = NoDateTime
    /\ formatted_time = ""

\* Line 232 and the entry of the standings part, on this response.
StandingsStart(response) ==
    /\ standings_response = response
    /\ standings_pc = "call"
    /\ record_index = 1
    /\ found_team = FALSE
    /\ standings_info = NoStandings
    /\ standings_raised = FALSE

Init ==
    /\ game_data_item \in GameRecords
    /\ pc = "collect"
    /\ all_broadcast_items = <<>>
    /\ next_item = 1
    /\ national_tv = {}
    /\ regional_tv = {}
    /\ display_list = <<>>
    /\ FetchIdle
    /\ StandingsIdle
    /\ FormatIdle

\* Lines 152-166: the pool is built; a malformed guide raises, an empty pool
\* returns ["TBD"].
CollectItems ==
    /\ pc = "collect"
    /\ LET pool == collect_items(game_data_item)
       IN  /\ pc' = IF pool.raised THEN "raised"
                    ELSE IF pool.value = <<>> THEN "done" ELSE "loop"
           /\ all_broadcast_items' = pool.value
           /\ display_list' = IF ~pool.raised /\ pool.value = <<>> THEN <<"TBD">> ELSE <<>>
    /\ UNCHANGED <<game_data_item, next_item, national_tv, regional_tv, fetch_vars,
                   standings_vars, format_vars>>

\* Lines 171-212: one iteration of the loop.
ClassifyBroadcast ==
    /\ pc = "loop"
    /\ next_item <= Len(all_broadcast_items)
    /\ LET classified == classify(all_broadcast_items[next_item])
       IN  /\ national_tv' = add_national(national_tv, classified)
           /\ regional_tv' = add_regional(regional_tv, classified)
    /\ next_item' = next_item + 1
    /\ UNCHANGED <<game_data_item, pc, all_broadcast_items, display_list, fetch_vars,
                   standings_vars, format_vars>>

\* Lines 214-226: the loop is over and the list is built and returned.
BuildDisplayList ==
    /\ pc = "loop"
    /\ next_item > Len(all_broadcast_items)
    /\ display_list' = build_display_list(national_tv, regional_tv)
    /\ pc' = "done"
    /\ UNCHANGED <<game_data_item, all_broadcast_items, next_item, national_tv, regional_tv,
                   fetch_vars, standings_vars, format_vars>>

Next == CollectItems \/ ClassifyBroadcast \/ BuildDisplayList

Spec == Init /\ [][Next]_vars

(***************************************************************************)
(* fetch_cardinals_data as a state machine: one call on one response.      *)
(***************************************************************************)

InitFetch ==
    /\ BroadcastIdle
    /\ schedule_response \in ScheduleResponses
    /\ num_days \in 0..MaxDays
    /\ fetch_pc = "schedule"
    /\ date_index = 1
    /\ game_index = 1
    /\ processed_games_count = 0
    /\ games_info = <<>>
    /\ schedule_raised = FALSE
    /\ StandingsStart(ScenarioStandings)
    /\ FormatIdle

\* Lines 289-291, then line 293: the exception is caught and the standings
\* part is next.
ScheduleExcept ==
    /\ schedule_raised' = TRUE
    /\ games_info' = schedule_except(games_info)
    /\ fetch_pc' = "standings"

\* Lines 239-249: the upstream call and the test of its response.
FetchSchedule ==
    /\ fetch_pc = "schedule"
    /\ IF schedule_response.kind = "raises"
       THEN ScheduleExcept
       ELSE /\ fetch_pc' = IF schedule_response.kind = "empty" THEN "standings" ELSE "dates"
            /\ UNCHANGED <<games_info, schedule_raised>>
    /\ UNCHANGED <<schedule_response, num_days, date_index, game_index,
                   processed_games_count, broadcast_vars, standings_vars, format_vars>>

\* Lines 250-251: the outer loop takes its next date object, whose games the
\* inner loop is to run over; date_obj.get raises on one that is not a dict.
NextDate ==
    /\ fetch_pc = "dates"
    /\ IF date_index > Len(schedule_response.dates)
       THEN /\ fetch_pc' = "standings"
            /\ UNCHANGED <<games_info, schedule_raised>>
       ELSE IF schedule_response.dates[date_index].kind # "dict"
       THEN ScheduleExcept
       ELSE /\ fetch_pc' = "games"
            /\ UNCHANGED <<games_info, schedule_raised>>
    /\ game_index' = 1
    /\ UNCHANGED <<schedule_response, num_days, date_index, processed_games_count,
                   broadcast_vars, standings_vars, format_vars>>

\* The games of the date object the outer loop is at.
games_of_date == schedule_response.dates[date_index].games

\* Lines 252-286: one iteration of the inner loop that is not stopped by the
\* count check.
ProcessGame ==
    /\ fetch_pc = "games"
    /\ game_index <= Len(games_of_date)
    /\ processed_games_count < num_days
    /\ LET outcome == game_outcome(games_of_date[game_index], TEAM_ID)
       IN  IF outcome.kind = "raise"
           THEN /\ ScheduleExcept
                /\ UNCHANGED <<game_index, processed_games_count>>
           ELSE /\ games_info' = games_info \o outcome.entry
                /\ processed_games_count' = processed_games_count + Len(outcome.entry)
                /\ game_index' = game_index + 1
                /\ UNCHANGED <<fetch_pc, schedule_raised>>
    /\ UNCHANGED <<schedule_response, num_days, date_index, broadcast_vars,
                   standings_vars, format_vars>>

\* Lines 252 and 287: the inner loop is over, by exhaustion or by the count
\* check, and the outer loop goes on unless the count is reached.
EndOfDate ==
    /\ fetch_pc = "games"
    /\ game_index > Len(games_of_date) \/ processed_games_count >= num_days
    /\ IF processed_games_count >= num_days
       THEN fetch_pc' = "standings" /\ date_index' = date_index
       ELSE fetch_pc' = "dates" /\ date_index' = date_index + 1
    /\ UNCHANGED <<schedule_response, num_days, game_index, processed_games_count,
                   games_info, schedule_raised, broadcast_vars, standings_vars, format_vars>>

\* Lines 340-344: the exception is caught and the function returns.
StandingsExcept ==
    /\ standings_raised' = TRUE
    /\ standings_pc' = "done"
    /\ fetch_pc' = "returned"

\* What the standings part leaves alone.
schedule_state ==
    <<schedule_response, num_days, date_index, game_index, processed_games_count,
      games_info, schedule_raised, broadcast_vars, format_vars>>

\* Lines 293-306: the upstream call and the test of its response.
FetchStandings ==
    /\ fetch_pc = "standings"
    /\ standings_pc = "call"
    /\ IF standings_response.kind = "raises"
       THEN StandingsExcept
       ELSE /\ standings_raised' = standings_raised
            /\ IF standings_response.kind = "empty"
               THEN standings_pc' = "done" /\ fetch_pc' = "returned"
               ELSE standings_pc' = "records" /\ fetch_pc' = fetch_pc
    /\ UNCHANGED <<standings_response, record_index, found_team, standings_info,
                   schedule_state>>

\* Lines 307-337: one iteration of the outer loop that the found_team test does
\* not stop.
ScanRecord ==
    /\ fetch_pc = "standings"
    /\ standings_pc = "records"
    /\ ~found_team
    /\ record_index <= Len(standings_response.records)
    /\ LET outcome == record_outcome(standings_response.records[record_index], TEAM_ID)
       IN  IF outcome.kind = "raise"
           THEN /\ StandingsExcept
                /\ UNCHANGED <<record_index, found_team, standings_info>>
           ELSE /\ standings_info' =
                       IF outcome.kind = "found" THEN outcome.info ELSE standings_info
                /\ found_team' = (outcome.kind = "found")
                /\ record_index' = record_index + 1
                /\ UNCHANGED <<fetch_pc, standings_pc, standings_raised>>
    /\ UNCHANGED <<standings_response, schedule_state>>

\* Lines 307-308 and 338-344: the outer loop is over, by exhaustion or by the
\* found_team test, and the function returns.
ReturnStandings ==
    /\ fetch_pc = "standings"
    /\ standings_pc = "records"
    /\ found_team \/ record_index > Len(standings_response.records)
    /\ standings_pc' = "done"
    /\ fetch_pc' = "returned"
    /\ UNCHANGED <<standings_response, record_index, found_team, standings_info,
                   standings_raised, schedule_state>>

NextStandings == FetchStandings \/ ScanRecord \/ ReturnStandings

NextFetch == FetchSchedule \/ NextDate \/ ProcessGame \/ EndOfDate \/ NextStandings

SpecFetch == InitFetch /\ [][NextFetch]_vars

(***************************************************************************)
(* The standings part of fetch_cardinals_data on its own: one call whose   *)
(* schedule part found nothing to collect.                                 *)
(***************************************************************************)

InitStandings ==
    /\ BroadcastIdle
    /\ schedule_response = ResponseEmpty
    /\ num_days \in 0..MaxDays
    /\ fetch_pc = "standings"
    /\ date_index = 1
    /\ game_index = 1
    /\ processed_games_count = 0
    /\ games_info = <<>>
    /\ schedule_raised = FALSE
    /\ \E response \in StandingsResponses : StandingsStart(response)
    /\ FormatIdle

SpecStandings == InitStandings /\ [][NextStandings]_vars

(***************************************************************************)
(* format_game_time as a state machine: one call on one raw value and one  *)
(* zone argument.                                                          *)
(***************************************************************************)

InitFormat ==
    /\ BroadcastIdle
    /\ FetchIdle
    /\ StandingsIdle
    /\ game_date_arg \in RawTimes
    /\ game_date_utc_str = game_date_arg
    /\ target_tz_str \in ZoneArguments
    /\ format_pc = "check"
    /\ dt_utc = NoDateTime
    /\ formatted_time = ""

\* What format_game_time leaves alone.
other_state == <<broadcast_vars, fetch_vars, standings_vars, game_date_arg, target_tz_str>>

\* A return of this text.
ReturnText(text) ==
    /\ formatted_time' = text
    /\ format_pc' = "done"

\* Lines 115-117: a value that is not a str is answered at once.
CheckInput ==
    /\ format_pc = "check"
    /\ IF ~IsStr(game_date_utc_str)
       THEN ReturnText("Time TBD")
       ELSE format_pc' = "timezone" /\ formatted_time' = formatted_time
    /\ UNCHANGED <<game_date_utc_str, dt_utc, other_state>>

\* Lines 118-122: the zone is looked up, which raises into lines 144-146 for a
\* zone pytz does not know, and one trailing 'Z' is dropped.
LookupTimezone ==
    /\ format_pc = "timezone"
    /\ IF timezone_raises(target_tz_str)
       THEN ReturnText("Time TBD") /\ UNCHANGED game_date_utc_str
       ELSE /\ game_date_utc_str' = PyStr(strip_z(game_date_utc_str.v))
            /\ format_pc' = "formats"
            /\ formatted_time' = formatted_time
    /\ UNCHANGED <<dt_utc, other_state>>

\* Lines 123-132: the three formats are tried in turn.
TryFormats ==
    /\ format_pc = "formats"
    /\ LET fmt == matched_format(game_date_utc_str.v)
       IN  IF fmt = "date"
           THEN /\ ReturnText(strftime_date(strptime_date(game_date_utc_str.v)))
                /\ dt_utc' = strptime_date(game_date_utc_str.v)
           ELSE IF fmt = "none"
           THEN /\ format_pc' = "fallback"
                /\ UNCHANGED <<dt_utc, formatted_time>>
           ELSE /\ dt_utc' = strptime_datetime(game_date_utc_str.v, fmt = "fraction")
                /\ format_pc' = "convert"
                /\ formatted_time' = formatted_time
    /\ UNCHANGED <<game_date_utc_str, other_state>>

\* Lines 133-139: no format matched, and the text before the first 'T' is
\* tried as a date.
DateOnly ==
    /\ format_pc = "fallback"
    /\ LET dt_utc_date_only == strptime_date(Split(game_date_utc_str.v, "T")[1])
       IN  IF dt_utc_date_only.ok
           THEN ReturnText(strftime_date(dt_utc_date_only))
           ELSE ReturnText("Time TBD")
    /\ UNCHANGED <<game_date_utc_str, dt_utc, other_state>>

\* Lines 141-146: the conversion to the zone and the formatting of the time.
ConvertTime ==
    /\ format_pc = "convert"
    /\ ReturnText(converted(dt_utc, target_tz_str.v))
    /\ UNCHANGED <<game_date_utc_str, dt_utc, other_state>>

NextFormat == CheckInput \/ LookupTimezone \/ TryFormats \/ DateOnly \/ ConvertTime

SpecFormat == InitFormat /\ [][NextFormat]_vars

\* The step machine returns what the function returns.
FormatSameAsFunction ==
    format_pc = "done" => formatted_time = format_game_time(game_date_arg, target_tz_str)

\* The step machine returns what the function returns.
SameAsFunction ==
    /\ pc = "done" => get_simplified_broadcasts(game_data_item) = Returned(display_list)
    /\ pc = "raised" => get_simplified_broadcasts(game_data_item) = Raised

(***************************************************************************)
(* The claims about get_simplified_broadcasts, checked under Spec.         *)
(***************************************************************************)

Returns == pc = "done"

\* C1: for every raw game record the returned list has at least 1 and at most
\* 3 entries.
C1_LengthOneToThree ==
    Returns => Len(display_list) >= 1 /\ Len(display_list) <= 3

\* Whether every candidate of the merged pool is filtered out as radio or as
\* the direct-streaming brand.
AllRadioOrStreaming ==
    \A i \in 1..Len(all_broadcast_items) :
        is_radio(all_broadcast_items[i]) \/ is_streaming_brand(all_broadcast_items[i])

\* C2 as stated: the returned list is exactly ["TBD"] if and only if the merged
\* pool is empty or every candidate in it is filtered out as radio or as the
\* streaming brand.
C2_TbdIffEmptyOrAllFiltered ==
    Returns => (display_list = <<"TBD">> <=> AllRadioOrStreaming)

\* What the candidates of the merged pool are classified as.
Classified == [i \in 1..Len(all_broadcast_items) |-> classify(all_broadcast_items[i])]

\* The labels the candidates of the merged pool contribute to each set.
NationalLabels ==
    LET classified == Classified
    IN  {classified[i].label :
            i \in {j \in 1..Len(classified) : classified[j].bucket = "national"}}

RegionalLabels ==
    LET classified == Classified
    IN  {classified[i].label :
            i \in {j \in 1..Len(classified) : classified[j].bucket = "regional"}}

\* C2 as amended: the returned list is exactly ["TBD"] if and only if no
\* candidate contributes a label (the pool is empty, or every candidate is
\* skipped: not a dict, radio, the streaming brand, or without a usable name
\* or call sign), or the one label contributed is itself the text "TBD".
C2_TbdIffNoLabel ==
    Returns =>
        LET national == NationalLabels
            regional == RegionalLabels
        IN  display_list = <<"TBD">> <=>
                \/ national = {} /\ regional = {}
                \/ national = {"TBD"} /\ regional = {}
                \/ national = {} /\ regional = {"TBD"}

\* A pool of a radio candidate and of a candidate that is neither radio nor the
\* streaming brand and has no usable name has returned ["TBD"].
C2_Witness ==
    /\ Returns
    /\ display_list = <<"TBD">>
    /\ \E i \in 1..Len(all_broadcast_items) : is_radio(all_broadcast_items[i])
    /\ \E i \in 1..Len(all_broadcast_items) :
           /\ ~is_radio(all_broadcast_items[i])
           /\ ~is_streaming_brand(all_broadcast_items[i])
           /\ all_broadcast_items[i].kind = "dict"

\* C3: the call never raises, whatever is malformed in the record.
C3_NeverRaises == pc # "raised"

Ascending(list) == \A i, j \in 1..Len(list) : i < j => StrLess(list[i], list[j])

\* C4: whenever the national set has 3 or more members, the returned list is
\* exactly 3 national labels in ascending order, none taken from the regional set.
C4_NationalPriority ==
    (Returns /\ Cardinality(national_tv) >= 3) =>
        /\ Len(display_list) = 3
        /\ \A i \in 1..Len(display_list) : display_list[i] \in national_tv
        /\ Ascending(display_list)

\* A candidate the exclusion is about: type AM or FM, type MLBTV, or a display
\* name containing "MLB.TV".
Excluded(broadcast) == is_radio(broadcast) \/ is_streaming_brand(broadcast)

\* C5: no excluded candidate contributes a label: every returned label is the
\* label of a candidate that is not excluded; and no returned label contains
\* "MLB.TV".
C5_RadioAndStreamingExcluded ==
    (Returns /\ national_tv \cup regional_tv # {}) =>
        \A k \in 1..Len(display_list) :
            /\ \E i \in 1..Len(all_broadcast_items) :
                   /\ ~Excluded(all_broadcast_items[i])
                   /\ classify(all_broadcast_items[i]).bucket # "none"
                   /\ classify(all_broadcast_items[i]).label = display_list[k]
            /\ ~Contains(display_list[k], "MLB.TV")

\* items in the order perm gives: position i holds items[perm[i]].
Permuted(items, perm) == [i \in 1..Len(items) |-> items[perm[i]]]

\* The pairs of label sets the loop ends with when it is run over the
\* permutations of the merged pool.
SetsOfPermutations ==
    LET classified == Classified
    IN  {add_all(Permuted(classified, perm), {}, {}) :
            perm \in Permutations(1..Len(classified))}

\* C6: the returned list is the list the function returns for every
\* permutation of the merged pool.
C6_OrderIndependent ==
    (Returns /\ all_broadcast_items # <<>>) =>
        \A sets \in SetsOfPermutations :
            display_list = build_display_list(sets.national, sets.regional)

\* A pool of at least three candidates, national and regional ones among them,
\* with more regional labels than are shown, has been processed.
C6_Witness ==
    /\ Returns
    /\ Len(all_broadcast_items) >= 3
    /\ national_tv # {}
    /\ Cardinality(regional_tv) >= 3

\* The number of regional labels the list shows.
RegionalShown ==
    IF Cardinality(regional_tv) < Max(0, DisplayCap - Cardinality(national_tv))
    THEN Cardinality(regional_tv)
    ELSE Max(0, DisplayCap - Cardinality(national_tv))

\* The list is the national labels, ascending, then the first RegionalShown
\* regional labels, ascending.
NationalThenRegional ==
    LET n == Cardinality(national_tv)
        shown == {display_list[k] : k \in (n + 1)..Len(display_list)}
    IN  /\ Len(display_list) = n + RegionalShown
        /\ {display_list[k] : k \in 1..n} = national_tv
        /\ Ascending(SubSeq(display_list, 1, n))
        /\ shown \subseteq regional_tv
        /\ Ascending(SubSeq(display_list, n + 1, Len(display_list)))
        /\ \A a \in shown : \A b \in regional_tv \ shown : StrLess(a, b)

\* The record of the scenario and the list it is to give.
ScenarioRecord == [broadcasts |-> PyList(ScenarioBroadcasts), content |-> NoContent]

ScenarioGivesFoxBsmw ==
    (Returns /\ game_data_item = ScenarioRecord) => display_list = <<"FOX", "BSMW">>

\* C7 as stated: the returned list is all national labels in ascending order
\* followed by the first max(0, 3 - number of national labels) regional labels
\* in ascending order, as in the scenario.
C7_NationalThenRegional ==
    /\ Returns => NationalThenRegional
    /\ ScenarioGivesFoxBsmw

\* C7 as amended: the same, unless both sets are empty, when the returned list
\* is ["TBD"].
C7_NationalThenRegionalOrTbd ==
    /\ (Returns /\ national_tv \cup regional_tv # {}) => NationalThenRegional
    /\ (Returns /\ national_tv \cup regional_tv = {}) => display_list = <<"TBD">>
    /\ ScenarioGivesFoxBsmw

\* Two national and two regional labels were collected and only the first
\* regional one is shown.
C7_Witness ==
    /\ Returns
    /\ Cardinality(national_tv) = 2
    /\ Cardinality(regional_tv) = 2
    /\ Len(display_list) = 3

\* The label C8 gives a name containing "FanDuel Sports Network".
FanDuelLabel(nm) ==
    IF nm = "FanDuel Sports Network" THEN "FanDuel SN"
    ELSE "FanDuel " \o Strip(Replace(nm, "FanDuel Sports Network", ""))

\* The candidate the loop is at.
Current == all_broadcast_items[next_item]

\* C8: the iteration for a non-radio candidate whose name contains "FanDuel
\* Sports Network" adds exactly one label, "FanDuel SN" for the exact name and
\* "FanDuel <rest>" otherwise, to the national set if the candidate is flagged
\* national and to the regional set otherwise.
C8_FanDuelShortening ==
    [][(/\ pc = "loop"
        /\ next_item <= Len(all_broadcast_items)
        /\ Current.kind = "dict"
        /\ ~is_radio(Current)
        /\ Contains(name(Current), "FanDuel Sports Network"))
       => IF isNational(Current)
          THEN /\ national_tv' = national_tv \cup {FanDuelLabel(name(Current))}
               /\ regional_tv' = regional_tv
          ELSE /\ regional_tv' = regional_tv \cup {FanDuelLabel(name(Current))}
               /\ national_tv' = national_tv]_vars

\* No label is at two places of the list.
NoRepeats(list) == \A i, j \in 1..Len(list) : i # j => list[i] # list[j]

\* C13: for every game record the returned list holds no label more than once,
\* also when a national candidate and a regional candidate give the same label.
C13_NoRepeatedLabels == Returns => NoRepeats(display_list)

(***************************************************************************)
(* The claims about the schedule part of fetch_cardinals_data, checked     *)
(* under SpecFetch.                                                        *)
(***************************************************************************)

\* The games of the response in upstream order.
RECURSIVE GamesOf(_)
GamesOf(dates) ==
    IF dates = <<>> THEN <<>> ELSE Head(dates).games \o GamesOf(Tail(dates))

Upstream == GamesOf(schedule_response.dates)

\* A game C9 lets into the list: its status is none of the four terminal ones
\* and the target team is its home or its away team.
Eligible(game_data) ==
    /\ game_status(game_data) \notin {"Final", "Game Over", "Completed Early", "Cancelled"}
    /\ home_id(game_data) = TEAM_ID \/ away_id(game_data) = TEAM_ID

EligibleGames == SelectSeq(Upstream, Eligible)

Min(a, b) == IF a < b THEN a ELSE b

\* C9: the game list holds at most num_days games; its k-th game is the k-th
\* game of the response, in upstream order, that is in none of the four terminal
\* states and has the target team as its home or away team; and when no
\* exception cuts the loop short it holds all of them up to num_days, so that
\* discarded games do not count toward num_days.
C9_ScheduleCollection ==
    /\ Len(games_info) <= num_days
    /\ Len(games_info) <= Len(EligibleGames)
    /\ \A k \in 1..Len(games_info) :
           /\ games_info[k].status = game_status(EligibleGames[k])
           /\ games_info[k].status
                  \notin {"Final", "Game Over", "Completed Early", "Cancelled"}
           /\ games_info[k].opponent = opponent_name(EligibleGames[k], TEAM_ID)
           /\ games_info[k].broadcast = get_simplified_broadcasts(EligibleGames[k]).value
    /\ (fetch_pc = "returned" /\ ~schedule_raised) =>
           Len(games_info) = Min(num_days, Len(EligibleGames))

\* A call has returned num_days = 2 games, with a third eligible game left out
\* and a discarded first game that was not counted.
C9_Witness ==
    /\ fetch_pc = "returned"
    /\ ~schedule_raised
    /\ num_days = 2
    /\ Len(games_info) = 2
    /\ Len(EligibleGames) > 2
    /\ ~Eligible(Upstream[1])

RECURSIVE DateUntilRaise(_)
DateUntilRaise(games) ==
    IF games = <<>> THEN [raised |-> FALSE, entries |-> <<>>]
    ELSE IF game_outcome(Head(games), TEAM_ID).kind = "raise"
         THEN [raised |-> TRUE, entries |-> <<>>]
         ELSE LET rest == DateUntilRaise(Tail(games))
              IN  [raised |-> rest.raised,
                   entries |-> game_outcome(Head(games), TEAM_ID).entry \o rest.entries]

\* The entries appended up to the first date object or game that raises.
RECURSIVE CollectedUntilRaise(_)
CollectedUntilRaise(dates) ==
    IF dates = <<>> \/ Head(dates).kind # "dict" THEN <<>>
    ELSE LET first == DateUntilRaise(Head(dates).games)
         IN  IF first.raised THEN first.entries
             ELSE first.entries \o CollectedUntilRaise(Tail(dates))

TeamRecordsOf(record) ==
    IF record.kind = "dict" /\ record.teamRecords.t = "list"
    THEN record.teamRecords.items ELSE <<>>

\* A team record whose team id equals the target id.
HasTargetId(team_standing) ==
    /\ team_standing.kind = "dict"
    /\ team_standing.team.t = "dict"
    /\ team_standing.team.id = TEAM_ID

\* The positions of the groups that hold a team record of the target.
TargetGroups ==
    {g \in 1..Len(standings_response.records) :
        \E i \in 1..Len(TeamRecordsOf(standings_response.records[g])) :
            HasTargetId(TeamRecordsOf(standings_response.records[g])[i])}

\* The first of them in scan order, and the first team record of the target
\* in it.
TargetGroup == CHOOSE g \in TargetGroups : \A h \in TargetGroups : g <= h

TargetRecord ==
    LET records == TeamRecordsOf(standings_response.records[TargetGroup])
        first == CHOOSE i \in 1..Len(records) :
                     /\ HasTargetId(records[i])
                     /\ \A j \in 1..(i - 1) : ~HasTargetId(records[j])
    IN  records[first]

\* The text of a field that is there.
Present(field) == field.t \in {"str", "int"}

\* "<gamesBack> GB", with "-" as "0.0 GB".
GamesBackText(gamesBack) ==
    IF gamesBack = PyStr("-") THEN "0.0 GB" ELSE gamesBack.v \o " GB"

\* The three fields as C11 gives them, each where the upstream fields it names
\* are there.
TakenFromTarget ==
    LET target == TargetRecord
        group == standings_response.records[TargetGroup]
        rank == IF Present(target.divisionRank) THEN target.divisionRank
                ELSE target.leagueRank
    IN  /\ (Present(target.leagueRecord.wins) /\ Present(target.leagueRecord.losses)) =>
               standings_info.record
                   = target.leagueRecord.wins.v \o "-" \o target.leagueRecord.losses.v
        /\ (Present(rank) /\ Present(group.division.nameShort)) =>
               standings_info.rank = rank.v \o " in " \o group.division.nameShort.v
        /\ Present(target.gamesBack) =>
               standings_info.gb = GamesBackText(target.gamesBack)

\* The scenario: 10 wins, 5 losses, division rank "1", games back "-", in the
\* NL Central.
ScenarioGivesFirstPlace ==
    (fetch_pc = "returned" /\ standings_response = ScenarioStandings) =>
        standings_info = [record |-> "10-5", rank |-> "1 in NL Central", gb |-> "0.0 GB"]

\* C11 as stated: the standings result is taken from the first team record, in
\* scan order over the groups, whose team id equals the target id, with record
\* "<wins>-<losses>", rank "<divisionRank, else leagueRank> in <division short
\* name>" and gb "<gamesBack> GB" ("-" as "0.0 GB"); the groups after it are
\* not consulted; and when the target id is in no group all three fields are
\* "N/A".
C11_StandingsFromFirstTarget ==
    /\ fetch_pc = "returned" =>
           IF TargetGroups = {} THEN standings_info = NoStandings
           ELSE TakenFromTarget /\ record_index = TargetGroup + 1
    /\ ScenarioGivesFirstPlace

\* The positions of the groups whose 'teamRecords' is there and cannot be
\* iterated, which ends the scan with an exception.
RaisingGroups ==
    {g \in 1..Len(standings_response.records) :
        /\ standings_response.records[g].kind = "dict"
        /\ standings_response.records[g].teamRecords.t = "none"}

\* The scan reaches the first team record of the target: no group before its
\* group raises.
TargetReached ==
    /\ TargetGroups # {}
    /\ \A g \in RaisingGroups : TargetGroup < g

\* The three fields with the defaults for the upstream fields that are missing:
\* 0 wins and losses, rank "N/A", the league's short name (or "League") for a
\* missing division short name and "N/A" for both missing, games back "N/A".
TakenFromTargetOrDefaults ==
    LET target == TargetRecord
        group == standings_response.records[TargetGroup]
        won == IF Present(target.leagueRecord.wins)
               THEN target.leagueRecord.wins.v ELSE "0"
        lost == IF Present(target.leagueRecord.losses)
                THEN target.leagueRecord.losses.v ELSE "0"
        rank == IF Present(target.divisionRank) THEN target.divisionRank.v
                ELSE IF Present(target.leagueRank) THEN target.leagueRank.v
                ELSE "N/A"
        place == IF Present(group.division.nameShort) THEN group.division.nameShort.v
                 ELSE IF Present(group.league.nameShort) THEN group.league.nameShort.v
                 ELSE IF group.league.t # "absent" THEN "League"
                 ELSE "N/A"
        back == IF Present(target.gamesBack) THEN GamesBackText(target.gamesBack)
                ELSE "N/A GB"
    IN  standings_info = [record |-> won \o "-" \o lost,
                          rank |-> rank \o " in " \o place,
                          gb |-> back]

\* C11 as amended: the same, with the defaults for missing upstream fields,
\* provided the scan reaches that team record; when an earlier group raises
\* (its team-record list is not a list), the exception is caught and all three
\* fields are "N/A", as they are when the upstream call raises or the target id
\* is in no group.
C11_StandingsFromFirstTargetReached ==
    /\ fetch_pc = "returned" =>
           IF TargetReached
           THEN /\ TakenFromTarget
                /\ TakenFromTargetOrDefaults
                /\ record_index = TargetGroup + 1
                /\ ~standings_raised
           ELSE /\ standings_info = NoStandings
                /\ standings_raised <=>
                       (standings_response.kind = "raises" \/ RaisingGroups # {})
    /\ ScenarioGivesFirstPlace

\* The target was found in the second group, after a group without it, and its
\* league rank was used for want of a division rank.
C11_Witness ==
    /\ fetch_pc = "returned"
    /\ found_team
    /\ TargetGroup = 2
    /\ record_index = 3
    /\ ~Present(TargetRecord.divisionRank)
    /\ standings_info = [record |-> "7-9", rank |-> "4 in NL East", gb |-> "3.5 GB"]

(***************************************************************************)
(* The claim about format_game_time, checked under SpecFormat.             *)
(***************************************************************************)

\* The raw value is a text.
IsText == game_date_arg.t = "str"

\* The raw text after one trailing 'Z' is stripped, and its date portion:
\* what is before the first 'T'.
WithoutTrailingZ ==
    LET text == game_date_arg.v
    IN  IF text # "" /\ CharAt(text, Len(text)) = "Z"
        THEN SubSeq(text, 1, Len(text) - 1) ELSE text

DatePortion == Split(WithoutTrailingZ, "T")[1]

\* The text parses as a bare date; it matches a full date-time pattern; its
\* date portion parses.
BareDate == strptime_date(WithoutTrailingZ).ok

MatchesFullPattern ==
    \/ strptime_datetime(WithoutTrailingZ, FALSE).ok
    \/ strptime_datetime(WithoutTrailingZ, TRUE).ok

DatePortionParses == strptime_date(DatePortion).ok

\* "<weekday> <month> <day> (Time TBD)" for the date portion.
DateOnlyText == strftime_date(strptime_date(DatePortion))

\* The returned text is a converted time: it holds no "Time TBD".
IsConvertedTime == ~Contains(formatted_time, "Time TBD")

\* pytz knows the zone argument.
ZoneKnown == IsStr(target_tz_str) /\ target_tz_str.v \in KnownZones

\* C12 as stated: for every raw value and every zone argument the call returns
\* (no exception escapes), and
\*   - a value that is no text, or a text whose date portion does not parse,
\*     yields exactly "Time TBD";
\*   - a text that parses as a bare date, or whose full patterns all fail but
\*     whose date portion parses, yields "<weekday> <month> <day> (Time TBD)",
\*     as "2024-05-20" yields "Mon May 20 (Time TBD)";
\*   - only a text matching a full date-time pattern yields a converted time.
C12_FormatGameTime ==
    format_pc = "done" =>
        /\ (~IsText \/ ~DatePortionParses) => formatted_time = "Time TBD"
        /\ (IsText /\ (BareDate \/ (~MatchesFullPattern /\ DatePortionParses))) =>
               formatted_time = DateOnlyText
        /\ game_date_arg = PyStr("2024-05-20") => formatted_time = "Mon May 20 (Time TBD)"
        /\ IsConvertedTime => (IsText /\ MatchesFullPattern)

\* C12 as amended: the same for a zone argument that the zone lookup knows,
\* where "2024-05-20T18:15:00Z" in the display zone yields
\* "Mon May 20, 1:15 PM CDT"; for any other zone argument the lookup, which
\* comes before the parsing, raises, the exception is caught, and every raw
\* value yields "Time TBD".
C12_FormatGameTimeKnownZone ==
    format_pc = "done" =>
        /\ (~IsText \/ ~DatePortionParses \/ ~ZoneKnown) => formatted_time = "Time TBD"
        /\ (IsText /\ ZoneKnown /\ (BareDate \/ (~MatchesFullPattern /\ DatePortionParses)))
               => formatted_time = DateOnlyText
        /\ (ZoneKnown /\ game_date_arg = PyStr("2024-05-20")) =>
               formatted_time = "Mon May 20 (Time TBD)"
        /\ IsConvertedTime => (IsText /\ MatchesFullPattern /\ ZoneKnown)
        /\ (game_date_arg = PyStr("2024-05-20T18:15:00Z")
               /\ target_tz_str = DISPLAY_TIMEZONE) =>
               formatted_time = "Mon May 20, 1:15 PM CDT"

\* A text ending in 'Z' whose hour is out of range, so that no full pattern
\* matches, has been answered with the date of its date portion.
C12_Witness ==
    /\ format_pc = "done"
    /\ game_date_arg = PyStr("2024-03-10T25:00:00Z")
    /\ target_tz_str = DISPLAY_TIMEZONE
    /\ ~MatchesFullPattern
    /\ ~BareDate
    /\ formatted_time = "Sun Mar 10 (Time TBD)"
====
